---- MODULE Spec2Model ----
(***************************************************************************)
(* rentZone: the booking handlers that read and write the shared           *)
(* `bookings` collection.  Every handler invocation is a process; every    *)
(* awaited database operation of a handler is one atomic step, so that two *)
(* invocations interleave exactly where the Lambda handlers can.  A        *)
(* process runs one invocation: idle, the handler's steps, done.           *)
(*                                                                         *)
(*   owner bookings PUT   src/unnamed/part_001                    86..699  *)
(*   renter bookings PUT  rentzone-user-profile/index.mjs        685..778  *)
(*   renter bookings POST rentzone-user-profile/index.mjs        566..682  *)
(*   booking request POST rentzone-booking-request/index.mjs      70..440  *)
(*   house DELETE         rentzone-house-delete/index.mjs         70..394  *)
(*   house details GET    src/unnamed/part_001                  745..1166  *)
(*   payment POST         rentzone-payment-process/index.mjs     254..699  *)
(*   admin login POST     rentzone-booking-request/index.mjs    735..1052  *)
(***************************************************************************)
EXTENDS Integers, Sequences, FiniteSets, TLC

MaxBookings == 3
MaxDate == 4
NumHouses == 1
NumRenters == 2
NumProcs == 2
MaxSeed == 2

Houses == 1..NumHouses
Dates == 1..MaxDate
Procs == 1..NumProcs
BookingIds == 1..MaxBookings

\* users are <<role, n>>; the token carries userId and role
OwnerOf(h) == <<"owner", h>>
Renters == {<<"renter", i>> : i \in 1..NumRenters}
Owners == {OwnerOf(h) : h \in Houses}
Admin == <<"admin", 1>>
Callers == {[userId |-> u, role |-> u[1]] : u \in Renters \cup Owners \cup {Admin}}

VARIABLES
  bookings,       \* the bookings collection: a sequence, _id = index
  houses,         \* the houses collection: houseId -> document (status, views)
  notifications,  \* the notifications collection (set of documents)
  payments,       \* the payments collection: a sequence, _id = index
  users,          \* the users collection: the admin account's login fields
  refreshTokens,  \* the refreshTokens collection: how many tokens it holds
  clock,          \* what `new Date()` reads, in minutes
  lockedAt,       \* history: when loginAttempts last reached MAX_LOGIN_ATTEMPTS
  inv,            \* per process: the handler invocation, its locals, its response
  interleaved     \* TRUE once a step ran while another invocation was in flight

vars == <<bookings, houses, notifications, payments, users, refreshTokens, clock,
          lockedAt, inv, interleaved>>

\* the state of the admin login handler, which no booking handler touches
authVars == <<users, refreshTokens, clock, lockedAt>>

Null == [none |-> TRUE]
NoFields == [none |-> TRUE]

NoResponse == [statusCode |-> 0, error |-> "none", currentStatus |-> "none",
               conflictingBookings |-> {}, calendar |-> <<>>]

Idle == [pc |-> "idle", op |-> "none", caller |-> Null, bookingId |-> 0,
         action |-> "none", booking |-> Null, updateFields |-> NoFields,
         found |-> {}, availabilityCalendar |-> <<>>, resp |-> NoResponse]

Response(code, error) == [NoResponse EXCEPT !.statusCode = code, !.error = error]

Ids == DOMAIN bookings

InFlight(q) == inv[q].pc \notin {"idle", "done"}

\* a step of p interleaves when some other invocation is in flight
Others(p) == \E q \in Procs : q # p /\ InFlight(q)
Mark(p) == interleaved' = (interleaved \/ Others(p))

\* Invocations are anonymous: of the processes that have not started, the
\* lowest starts next.
CanStart(p) ==
  /\ inv[p].pc = "idle"
  /\ \A q \in Procs : q < p => inv[q].pc # "idle"

\* the invocation starts: its inputs and what its first read returned
Start(op, caller, bid, action) ==
  [Idle EXCEPT !.op = op, !.caller = caller, !.bookingId = bid, !.action = action]

\* the handler returns `resp`; the locals of the invocation are dropped
Return(p, rec, resp) ==
  inv' = [inv EXCEPT ![p] = [rec EXCEPT !.pc = "done", !.resp = resp,
                                        !.updateFields = NoFields, !.found = {}]]

Goto(p, rec) == inv' = [inv EXCEPT ![p] = rec]

(***************************************************************************)
(* Owner bookings PUT                                                      *)
(***************************************************************************)
validActions == {"accept", "reject", "cancel", "complete"}

\* mutant: the table lets a confirmed booking be accepted again
stateTransitionAcceptConfirmed(status) ==
  CASE status = "pending"   -> {"accept", "reject", "cancel"}
    [] status = "confirmed" -> {"accept", "active", "complete", "cancel"}
    [] status = "active"    -> {"complete", "cancel"}
    [] OTHER                -> {}

stateTransition(status) ==
  CASE status = "pending"   -> {"accept", "reject", "cancel"}
    [] status = "confirmed" -> {"cancel", "active", "complete"}
    [] status = "active"    -> {"complete"}
    [] OTHER                -> {}

\* mutant: complete moves the booking to active
newStatusActivates(action) ==
  CASE action = "accept"   -> "confirmed"
    [] action = "reject"   -> "rejected"
    [] action = "cancel"   -> "cancelled"
    [] action = "complete" -> "active"

newStatus(action) ==
  CASE action = "accept"   -> "confirmed"
    [] action = "reject"   -> "rejected"
    [] action = "cancel"   -> "cancelled"
    [] action = "complete" -> "completed"

\* the date clause every query of the repository uses:
\*   checkInDate: { $lte: checkOut }, checkOutDate: { $gte: checkIn }
DateClause(b, checkIn, checkOut) ==
  /\ b.checkInDate <= checkOut
  /\ b.checkOutDate >= checkIn

\* mutant: findOne({ _id }), whoever owns the booking
ownerFindOneAnyOwner(bid, ownerId) ==
  IF bid \in Ids THEN bookings[bid] ELSE Null

\* findOne({ _id, ownerId })
ownerFindOne(bid, ownerId) ==
  IF bid \in Ids /\ bookings[bid].ownerId = ownerId THEN bookings[bid] ELSE Null

\* the document the handler $sets: status, statusHistory and the fields of
\* the switch; statusHistory is the array read at findOne plus one entry
ownerUpdateFields(booking, action) ==
  [action |-> action,
   status |-> newStatus(action),
   statusHistory |-> Append(booking.statusHistory,
                            [from |-> booking.status, to |-> newStatus(action),
                             action |-> action])]

\* mutant: the conflict query looks at active bookings only
overlappingBookingsActiveOnly(bid, booking) ==
  {i \in Ids : /\ i # bid
               /\ bookings[i].houseId = booking.houseId
               /\ bookings[i].status \in {"active"}
               /\ DateClause(bookings[i], booking.checkInDate, booking.checkOutDate)}

overlappingBookings(bid, booking) ==
  {i \in Ids : /\ i # bid
               /\ bookings[i].houseId = booking.houseId
               /\ bookings[i].status \in {"confirmed", "active"}
               /\ DateClause(bookings[i], booking.checkInDate, booking.checkOutDate)}

conflictingBookings(ids) ==
  {[id |-> i, checkIn |-> bookings[i].checkInDate,
    checkOut |-> bookings[i].checkOutDate, status |-> bookings[i].status] : i \in ids}

otherPendingBookings(bid, booking) ==
  {i \in Ids : /\ i # bid
               /\ bookings[i].houseId = booking.houseId
               /\ bookings[i].status = "pending"
               /\ DateClause(bookings[i], booking.checkInDate, booking.checkOutDate)}

\* mutant: the status write also asks for status 'pending'
ownerWriteFilterPending(b, ownerId) == b.ownerId = ownerId /\ b.status = "pending"

\* the filter of the status write: { _id, ownerId }
ownerWriteFilter(b, ownerId) == b.ownerId = ownerId

ownerSet(b, upd) ==
  [b EXCEPT !.status = upd.status,
            !.statusHistory = upd.statusHistory,
            !.rejectionReason = IF upd.action = "reject" THEN "owner" ELSE @,
            !.cancelledBy = IF upd.action = "cancel" THEN "owner" ELSE @]

\* $set of both cascade updateMany calls: no statusHistory among the fields
cascadeSet(b) ==
  [b EXCEPT !.status = "rejected", !.rejectionReason = "cascade"]

renterNotificationType(action) ==
  CASE action = "accept"   -> "booking_confirmed"
    [] action = "reject"   -> "booking_rejected"
    [] action = "cancel"   -> "booking_cancelled"
    [] action = "complete" -> "booking_completed"

\* type: `booking_${action}ed`
ownerNotificationType(action) == "booking_" \o action \o "ed"

Notification(userId, type, bid) == [userId |-> userId, type |-> type, bookingId |-> bid]

\* the two notifications of the block, in the order they are inserted
ownerPutNotifications(i) ==
  <<Notification(i.booking.renterId, renterNotificationType(i.action), i.bookingId),
    Notification(i.caller.userId, ownerNotificationType(i.action), i.bookingId)>>

\* PUT: token, action, findOne, transition table, updateFields      (245..355)
OwnerBegin(p) ==
  /\ CanStart(p)
  /\ \E caller \in Callers, bid \in BookingIds, action \in validActions \cup {"active"} :
       LET booking == ownerFindOne(bid, caller.userId)
           me == Start("owner_put", caller, bid, action)
       IN
       IF caller.role \notin {"owner", "admin"}
         THEN Return(p, Start(me.op, Null, 0, "none"), Response(403, "Forbidden"))
       ELSE IF action \notin validActions
         THEN Return(p, me, Response(400, "InvalidAction"))
       ELSE IF booking = Null
         THEN Return(p, me, Response(404, "NotFound"))
       ELSE IF action \notin stateTransition(booking.status)
         THEN Return(p, [me EXCEPT !.booking = booking],
                     [Response(400, "InvalidTransition") EXCEPT
                        !.currentStatus = booking.status])
       ELSE Goto(p, [me EXCEPT !.pc = IF action = "accept" THEN "o_check" ELSE "o_write",
                               !.booking = booking,
                               !.updateFields = ownerUpdateFields(booking, action)])
  /\ Mark(p)
  /\ UNCHANGED <<payments, authVars>>
  /\ UNCHANGED <<bookings, houses, notifications>>

\* accept: the overlappingBookings query, 409 when it finds any     (357..386)
OwnerCheck(p) ==
  /\ inv[p].pc = "o_check"
  /\ LET found == overlappingBookings(inv[p].bookingId, inv[p].booking) IN
       IF found # {}
         THEN Return(p, inv[p], [Response(409, "DateConflict") EXCEPT
                                   !.conflictingBookings = conflictingBookings(found)])
         ELSE Goto(p, [inv[p] EXCEPT !.pc = "o_write"])
  /\ Mark(p)
  /\ UNCHANGED <<payments, authVars>>
  /\ UNCHANGED <<bookings, houses, notifications>>

\* findOneAndUpdate({ _id, ownerId }, { $set: updateFields })        (388..393)
OwnerWrite(p) ==
  /\ inv[p].pc = "o_write"
  /\ LET bid == inv[p].bookingId IN
       bookings' = IF ownerWriteFilter(bookings[bid], inv[p].caller.userId)
                     THEN [bookings EXCEPT ![bid] = ownerSet(@, inv[p].updateFields)]
                     ELSE bookings
  /\ Goto(p, [inv[p] EXCEPT !.pc = "o_notify"])
  /\ Mark(p)
  /\ UNCHANGED <<payments, authVars>>
  /\ UNCHANGED <<houses, notifications>>

\* try { renter notification, owner notification ... }              (396..537)
\* n documents are inserted before the block throws; n = 2 is no throw,
\* and a throw leaves the block for the catch at 632
OwnerNotify(p) ==
  /\ inv[p].pc = "o_notify"
  /\ \E n \in 0..2 :
       /\ notifications' = notifications \cup
            {ownerPutNotifications(inv[p])[k] : k \in 1..n}
       /\ IF inv[p].action # "accept"
            THEN Return(p, inv[p], Response(200, "none"))
            ELSE Goto(p, [inv[p] EXCEPT !.pc = IF n = 2 THEN "o_cfind" ELSE "o_cascade2"])
  /\ Mark(p)
  /\ UNCHANGED <<payments, authVars>>
  /\ UNCHANGED <<bookings, houses>>

\* ... the otherPendingBookings query of the block; it may throw    (539..553)
OwnerCascadeFind(p) ==
  /\ inv[p].pc = "o_cfind"
  /\ \E ok \in BOOLEAN :
       LET found == otherPendingBookings(inv[p].bookingId, inv[p].booking) IN
       Goto(p, IF ok /\ found # {}
                 THEN [inv[p] EXCEPT !.pc = "o_cupdate", !.found = found]
                 ELSE [inv[p] EXCEPT !.pc = "o_cascade2"])
  /\ Mark(p)
  /\ UNCHANGED <<payments, authVars>>
  /\ UNCHANGED <<bookings, houses, notifications>>

\* ... updateMany({ _id: { $in: ids } }, { $set: rejected }); may throw (555..567)
OwnerCascadeUpdate(p) ==
  /\ inv[p].pc = "o_cupdate"
  /\ \E ok \in BOOLEAN :
       IF ok
         THEN /\ bookings' = [i \in Ids |->
                    IF i \in inv[p].found THEN cascadeSet(bookings[i]) ELSE bookings[i]]
              /\ Goto(p, [inv[p] EXCEPT !.pc = "o_cnotify"])
         ELSE /\ UNCHANGED bookings
              /\ Goto(p, [inv[p] EXCEPT !.pc = "o_cascade2", !.found = {}])
  /\ Mark(p)
  /\ UNCHANGED <<payments, authVars>>
  /\ UNCHANGED <<houses, notifications>>

\* ... one booking_auto_rejected notification per found booking, in the
\* order of the array; the loop may throw after any of them          (569..628)
OwnerCascadeNotify(p) ==
  /\ inv[p].pc = "o_cnotify"
  /\ \E n \in 0..Cardinality(inv[p].found) :
       notifications' = notifications \cup
         {Notification(bookings[i].renterId, "booking_auto_rejected", i) :
            i \in {j \in inv[p].found : Cardinality({k \in inv[p].found : k <= j}) <= n}}
  /\ Goto(p, [inv[p] EXCEPT !.pc = "o_cascade2", !.found = {}])
  /\ Mark(p)
  /\ UNCHANGED <<payments, authVars>>
  /\ UNCHANGED <<bookings, houses>>

\* after the catch: the second updateMany, by query; it is inside the outer
\* try only, so a throw is the 500 of the handler's catch      (638..676, 679..698)
OwnerCascade2(p) ==
  /\ inv[p].pc = "o_cascade2"
  /\ \E ok \in BOOLEAN :
       IF ok
         THEN /\ bookings' = [i \in Ids |->
                    IF i \in otherPendingBookings(inv[p].bookingId, inv[p].booking)
                      THEN cascadeSet(bookings[i]) ELSE bookings[i]]
              /\ Return(p, inv[p], Response(200, "none"))
         ELSE /\ UNCHANGED bookings
              /\ Return(p, inv[p], Response(500, "InternalServerError"))
  /\ Mark(p)
  /\ UNCHANGED <<payments, authVars>>
  /\ UNCHANGED <<houses, notifications>>

OwnerPut(p) ==
  \/ OwnerBegin(p)
  \/ OwnerCheck(p)
  \/ OwnerWrite(p)
  \/ OwnerNotify(p)
  \/ OwnerCascadeFind(p)
  \/ OwnerCascadeUpdate(p)
  \/ OwnerCascadeNotify(p)
  \/ OwnerCascade2(p)

(***************************************************************************)
(* Renter bookings PUT: cancel, update_dates                               *)
(***************************************************************************)
Ranges == {r \in Dates \X Dates : r[1] < r[2]}

\* the property is let by the month at PriceAmount, with no deposit and no
\* discount
PriceAmount == 30

\* renter POST: price.amount * Math.ceil(nights / 30); every range of the
\* model is shorter than a month, so months is 1, or 0 when checkOut is
\* not after checkIn                                              (622..647)
postTotal(checkIn, checkOut) == PriceAmount * (IF checkOut > checkIn THEN 1 ELSE 0)

\* booking request, durationType 'days': (monthlyRent / 30) * days (191..216)
requestTotal(duration) == (PriceAmount \div 30) * duration

\* the dates of a request body are not validated: besides the ranges, an
\* empty range and a reversed one
BodyRanges == Ranges \cup {<<2, 2>>, <<3, 2>>}

\* findOne({ _id, renterId })
renterFindOne(bid, renterId) ==
  IF bid \in Ids /\ bookings[bid].renterId = renterId THEN bookings[bid] ELSE Null

\* cancel is refused for cancelled and completed bookings only      (713..728)
renterCancelRefused(status) == status \in {"cancelled", "completed"}

\* mutant: update_dates prices the booking again for its new dates
renterSetRepriced(b, upd) ==
  IF upd.action = "cancel"
    THEN [b EXCEPT !.status = "cancelled"]
    ELSE [b EXCEPT !.checkInDate = upd.checkInDate, !.checkOutDate = upd.checkOutDate,
                   !.totalAmount = postTotal(upd.checkInDate, upd.checkOutDate)]

renterSet(b, upd) ==
  IF upd.action = "cancel"
    THEN [b EXCEPT !.status = "cancelled"]
    ELSE [b EXCEPT !.checkInDate = upd.checkInDate, !.checkOutDate = upd.checkOutDate]

\* mutant: update_dates is allowed whatever the status of the booking
RenterBeginAnyStatus(p) ==
  /\ CanStart(p)
  /\ \E caller \in Callers, bid \in BookingIds,
        action \in {"cancel", "update_dates"}, r \in BodyRanges :
       LET booking == renterFindOne(bid, caller.userId)
           me == Start("renter_put", caller, bid, action)
       IN
       IF caller.role # "renter"
         THEN Return(p, Start(me.op, Null, 0, "none"), Response(403, "Forbidden"))
       ELSE IF booking = Null
         THEN Return(p, me, Response(404, "NotFound"))
       ELSE IF action = "cancel" /\ renterCancelRefused(booking.status)
         THEN Return(p, [me EXCEPT !.booking = booking],
                     [Response(400, "CannotCancel") EXCEPT !.currentStatus = booking.status])
       ELSE Goto(p, [me EXCEPT !.pc = "r_write", !.booking = booking,
                               !.updateFields =
                                 IF action = "cancel"
                                   THEN [action |-> action]
                                   ELSE [action |-> action, checkInDate |-> r[1],
                                         checkOutDate |-> r[2]]])
  /\ Mark(p)
  /\ UNCHANGED <<payments, authVars>>
  /\ UNCHANGED <<bookings, houses, notifications>>

\* PUT: token, findOne, the action's guards, updateFields           (685..762)
RenterBegin(p) ==
  /\ CanStart(p)
  /\ \E caller \in Callers, bid \in BookingIds,
        action \in {"cancel", "update_dates"}, r \in BodyRanges :
       LET booking == renterFindOne(bid, caller.userId)
           me == Start("renter_put", caller, bid, action)
       IN
       IF caller.role # "renter"
         THEN Return(p, Start(me.op, Null, 0, "none"), Response(403, "Forbidden"))
       ELSE IF booking = Null
         THEN Return(p, me, Response(404, "NotFound"))
       ELSE IF action = "cancel" /\ renterCancelRefused(booking.status)
         THEN Return(p, [me EXCEPT !.booking = booking],
                     [Response(400, "CannotCancel") EXCEPT !.currentStatus = booking.status])
       ELSE IF action = "update_dates" /\ booking.status # "pending"
         THEN Return(p, [me EXCEPT !.booking = booking],
                     [Response(400, "NotPending") EXCEPT !.currentStatus = booking.status])
       ELSE Goto(p, [me EXCEPT !.pc = "r_write", !.booking = booking,
                               !.updateFields =
                                 IF action = "cancel"
                                   THEN [action |-> action]
                                   ELSE [action |-> action, checkInDate |-> r[1],
                                         checkOutDate |-> r[2]]])
  /\ Mark(p)
  /\ UNCHANGED <<payments, authVars>>
  /\ UNCHANGED <<bookings, houses, notifications>>

\* findOneAndUpdate({ _id, renterId }, { $set: updateFields })       (764..768)
RenterWrite(p) ==
  /\ inv[p].pc = "r_write"
  /\ LET bid == inv[p].bookingId IN
       bookings' = IF bookings[bid].renterId = inv[p].caller.userId
                     THEN [bookings EXCEPT ![bid] = renterSet(@, inv[p].updateFields)]
                     ELSE bookings
  /\ Return(p, inv[p], Response(200, "none"))
  /\ Mark(p)
  /\ UNCHANGED <<payments, authVars>>
  /\ UNCHANGED <<houses, notifications>>

RenterPut(p) == RenterBegin(p) \/ RenterWrite(p)

(***************************************************************************)
(* Creating a booking: booking request POST and renter bookings POST       *)
(***************************************************************************)
Today == 2

\* checkOutDate = checkInDate + duration, durationType 'days'       (136..150)
requestCheckOut(moveInDate, duration) == moveInDate + duration

\* duration is any value that passes `!duration`: "0" and negative numbers
\* do, and parseInt gives 0 or less for them
Durations(moveInDate) == {d \in -1..MaxDate : moveInDate + d \in Dates}

\* findOne({ _id, status: 'approved', isActive: true, availability })
houseFindOne(h) == IF houses[h].status = "approved" THEN h ELSE 0

\* findOne({ houseId, status in [pending, confirmed, active], date clause })
existingBooking(h, checkIn, checkOut) ==
  {i \in Ids : /\ bookings[i].houseId = h
               /\ bookings[i].status \in {"pending", "confirmed", "active"}
               /\ DateClause(bookings[i], checkIn, checkOut)}

\* mutant: a booking is born confirmed
newBookingConfirmed(h, renterId, checkIn, checkOut) ==
  [houseId |-> h, ownerId |-> OwnerOf(h), renterId |-> renterId,
   checkInDate |-> checkIn, checkOutDate |-> checkOut, status |-> "confirmed",
   statusHistory |-> <<>>, rejectionReason |-> "none", cancelledBy |-> "none",
   totalAmount |-> postTotal(checkIn, checkOut), paymentStatus |-> "pending"]

\* the inserted document: status 'pending', no statusHistory field
newBooking(h, renterId, checkIn, checkOut) ==
  [houseId |-> h, ownerId |-> OwnerOf(h), renterId |-> renterId,
   checkInDate |-> checkIn, checkOutDate |-> checkOut, status |-> "pending",
   statusHistory |-> <<>>, rejectionReason |-> "none", cancelledBy |-> "none",
   totalAmount |-> postTotal(checkIn, checkOut), paymentStatus |-> "pending"]

\* the model holds at most MaxBookings documents: a creation starts only
\* when there is room for it and for the creations already in flight
Room == Len(bookings) + Cardinality({q \in Procs : inv[q].op \in {"booking_request",
                                       "renter_post"} /\ InFlight(q)}) < MaxBookings

\* booking request: token, house, dates, past-date check            (82..162)
ReqBegin(p) ==
  /\ CanStart(p)
  /\ Room
  /\ \E caller \in Callers, h \in Houses, moveInDate \in Dates :
       \E duration \in Durations(moveInDate) :
         LET me == Start("booking_request", caller, 0, "create")
             doc == [newBooking(h, caller.userId, moveInDate,
                                requestCheckOut(moveInDate, duration))
                       EXCEPT !.totalAmount = requestTotal(duration)]
         IN
         IF caller.role # "renter"
           THEN Return(p, Start(me.op, Null, 0, "none"), Response(403, "Forbidden"))
         ELSE IF houseFindOne(h) = 0
           THEN Return(p, me, Response(404, "PropertyNotAvailable"))
         ELSE IF moveInDate < Today
           THEN Return(p, me, Response(400, "PastDate"))
         ELSE Goto(p, [me EXCEPT !.pc = "q_check", !.booking = doc])
  /\ Mark(p)
  /\ UNCHANGED <<payments, authVars>>
  /\ UNCHANGED <<bookings, houses, notifications>>

\* mutant: the check holds the range it found free by storing the booking
ReqCheckHolding(p) ==
  /\ inv[p].pc = "q_check"
  /\ LET b == inv[p].booking IN
       IF existingBooking(b.houseId, b.checkInDate, b.checkOutDate) # {}
         THEN /\ Return(p, inv[p], Response(409, "NotAvailable"))
              /\ bookings' = bookings
         ELSE /\ Goto(p, [inv[p] EXCEPT !.pc = "q_insert"])
              /\ bookings' = Append(bookings, b)
  /\ Mark(p)
  /\ UNCHANGED <<payments, authVars>>
  /\ UNCHANGED <<houses, notifications>>

\* booking request: the existingBooking query, 409 when it finds one (164..188)
ReqCheck(p) ==
  /\ inv[p].pc = "q_check"
  /\ LET b == inv[p].booking IN
       IF existingBooking(b.houseId, b.checkInDate, b.checkOutDate) # {}
         THEN Return(p, inv[p], Response(409, "NotAvailable"))
         ELSE Goto(p, [inv[p] EXCEPT !.pc = "q_insert"])
  /\ Mark(p)
  /\ UNCHANGED <<payments, authVars>>
  /\ UNCHANGED <<bookings, houses, notifications>>

\* booking request: insertOne, then the notifications of the try block:
\* booking_request to the owner, booking_submitted to the renter; n of
\* them are inserted before the block throws                        (224..388)
ReqInsert(p) ==
  /\ inv[p].pc = "q_insert"
  /\ bookings' = Append(bookings, inv[p].booking)
  /\ LET id == Len(bookings) + 1
         ns == <<Notification(inv[p].booking.ownerId, "booking_request", id),
                 Notification(inv[p].booking.renterId, "booking_submitted", id)>>
     IN /\ \E n \in 0..2 : notifications' = notifications \cup {ns[k] : k \in 1..n}
        /\ Return(p, [inv[p] EXCEPT !.bookingId = id], Response(201, "none"))
  /\ Mark(p)
  /\ UNCHANGED <<payments, authVars>>
  /\ UNCHANGED houses

\* renter bookings POST: token, house; the dates are the caller's    (465..600)
PostBegin(p) ==
  /\ CanStart(p)
  /\ Room
  /\ \E caller \in Callers, h \in Houses, r \in BodyRanges :
       LET me == Start("renter_post", caller, 0, "create") IN
       IF caller.role # "renter"
         THEN Return(p, Start(me.op, Null, 0, "none"), Response(403, "Forbidden"))
       ELSE IF houseFindOne(h) = 0
         THEN Return(p, me, Response(404, "PropertyNotAvailable"))
       ELSE Goto(p, [me EXCEPT !.pc = "n_check",
                               !.booking = newBooking(h, caller.userId, r[1], r[2])])
  /\ Mark(p)
  /\ UNCHANGED <<payments, authVars>>
  /\ UNCHANGED <<bookings, houses, notifications>>

\* renter bookings POST: the existingBooking query                  (602..620)
PostCheck(p) ==
  /\ inv[p].pc = "n_check"
  /\ LET b == inv[p].booking IN
       IF existingBooking(b.houseId, b.checkInDate, b.checkOutDate) # {}
         THEN Return(p, inv[p], Response(409, "NotAvailable"))
         ELSE Goto(p, [inv[p] EXCEPT !.pc = "n_insert"])
  /\ Mark(p)
  /\ UNCHANGED <<payments, authVars>>
  /\ UNCHANGED <<bookings, houses, notifications>>

\* renter bookings POST: insertOne                                  (649..681)
PostInsert(p) ==
  /\ inv[p].pc = "n_insert"
  /\ bookings' = Append(bookings, inv[p].booking)
  /\ Return(p, [inv[p] EXCEPT !.bookingId = Len(bookings) + 1], Response(201, "none"))
  /\ Mark(p)
  /\ UNCHANGED <<payments, authVars>>
  /\ UNCHANGED <<houses, notifications>>

BookingRequest(p) == ReqBegin(p) \/ ReqCheck(p) \/ ReqInsert(p)
RenterPost(p) == PostBegin(p) \/ PostCheck(p) \/ PostInsert(p)

(***************************************************************************)
(* House DELETE                                                            *)
(***************************************************************************)
\* countDocuments({ houseId, status in [pending, confirmed, active] })
activeBookings(h) ==
  {i \in Ids : bookings[i].houseId = h /\
               bookings[i].status \in {"pending", "confirmed", "active"}}

adminCancelSet(b) == [b EXCEPT !.status = "cancelled", !.cancelledBy = "admin"]

\* token, findOne of the house, ownership                           (82..134)
DelBegin(p) ==
  /\ CanStart(p)
  /\ \E caller \in Callers, h \in Houses, forceDelete \in BOOLEAN :
       LET me == Start("house_delete", caller, 0, "delete") IN
       IF caller.role \notin {"owner", "admin"}
         THEN Return(p, Start(me.op, Null, 0, "none"), Response(403, "Forbidden"))
       ELSE IF OwnerOf(h) # caller.userId /\ caller.role # "admin"
         THEN Return(p, me, Response(403, "NotOwner"))
       ELSE Goto(p, [me EXCEPT !.pc = "d_count",
                               !.updateFields = [houseId |-> h, forceDelete |-> forceDelete]])
  /\ Mark(p)
  /\ UNCHANGED <<payments, authVars>>
  /\ UNCHANGED <<bookings, houses, notifications>>

\* countDocuments and the two guards on it                          (136..171)
DelCount(p) ==
  /\ inv[p].pc = "d_count"
  /\ LET n == Cardinality(activeBookings(inv[p].updateFields.houseId)) IN
       IF n > 0 /\ inv[p].caller.role # "admin"
         THEN Return(p, inv[p], Response(400, "ActiveBookings"))
       ELSE IF n > 0 /\ ~inv[p].updateFields.forceDelete
         THEN Return(p, inv[p], Response(400, "ForceDeleteRequired"))
       ELSE Goto(p, [inv[p] EXCEPT !.pc = IF n > 0 THEN "d_cancel" ELSE "d_soft"])
  /\ Mark(p)
  /\ UNCHANGED <<payments, authVars>>
  /\ UNCHANGED <<bookings, houses, notifications>>

\* admin, forceDelete: updateMany({ houseId, status in [...] }, cancelled) (173..190)
DelCancel(p) ==
  /\ inv[p].pc = "d_cancel"
  /\ bookings' = [i \in Ids |->
        IF i \in activeBookings(inv[p].updateFields.houseId)
          THEN adminCancelSet(bookings[i]) ELSE bookings[i]]
  /\ Goto(p, [inv[p] EXCEPT !.pc = "d_soft"])
  /\ Mark(p)
  /\ UNCHANGED <<payments, authVars>>
  /\ UNCHANGED <<houses, notifications>>

\* the soft delete of the house, then the owner's notification      (192..257)
DelSoft(p) ==
  /\ inv[p].pc = "d_soft"
  /\ LET h == inv[p].updateFields.houseId IN
       /\ houses' = [houses EXCEPT ![h].status = "deleted"]
       /\ \E n \in 0..1 :
            notifications' = notifications \cup
              {Notification(OwnerOf(h), "listing_deleted", 0) : k \in 1..n}
  /\ Return(p, inv[p], Response(200, "none"))
  /\ Mark(p)
  /\ UNCHANGED <<payments, authVars>>
  /\ UNCHANGED bookings

HouseDelete(p) == DelBegin(p) \/ DelCount(p) \/ DelCancel(p) \/ DelSoft(p)

(***************************************************************************)
(* House details GET: view counter and availability calendar               *)
(*                                                                         *)
(* The handler compares instants.  Here an instant is a number of ticks,   *)
(* TicksPerDay of them in a day, counted from the start of the current     *)
(* month; tick 0 of a day is midnight.                                     *)
(***************************************************************************)
TicksPerDay == 2
MonthDays == 30
WindowDays == 90
SliceDays == 30
MaxDrift == 1
MaxCalSeed == 1

\* toISOString().split('T')[0]: the calendar day of an instant
day(t) == t \div TicksPerDay

\* the month of an instant: the current month, or what follows it
monthStart(t) ==
  IF t < MonthDays * TicksPerDay THEN 0 ELSE MonthDays * TicksPerDay

\* Date.prototype.getDate: the day of the month, from 1
getDate(t) == day(t - monthStart(t)) + 1

\* Date.prototype.setDate: day n of the month of t, at the time of day of t;
\* an n past the end of the month runs on into the following days
setDate(t, n) == monthStart(t) + (n - 1) * TicksPerDay + (t % TicksPerDay)

\* the clock at `const today = new Date()`: the last day of the month
ClockReads == {t \in 0..(MonthDays * TicksPerDay - 1) : getDate(t) = MonthDays}

\* find({ houseId, status in [confirmed, active], checkInDate <= ninetyDaysLater,
\*        checkOutDate >= today }), projection checkInDate, checkOutDate
bookedDates(h, today, ninetyDaysLater) ==
  {[checkInDate |-> bookings[i].checkInDate, checkOutDate |-> bookings[i].checkOutDate] :
     i \in {j \in Ids : /\ bookings[j].houseId = h
                        /\ bookings[j].status \in {"confirmed", "active"}
                        /\ bookings[j].checkInDate <= ninetyDaysLater
                        /\ bookings[j].checkOutDate >= today}}

\* bookedDates.some(b => currentDate >= b.checkInDate && currentDate <= b.checkOutDate)
isBooked(booked, currentDate) ==
  \E b \in booked : currentDate >= b.checkInDate /\ currentDate <= b.checkOutDate

\* Array.prototype.slice(0, n)
slice(arr, n) == SubSeq(arr, 1, IF Len(arr) < n THEN Len(arr) ELSE n)

\* token if present, findOneAndUpdate({ _id }, { $inc: { views: 1 }, $push:
\* viewedBy }), then the approved check for callers that are not owner or
\* admin                                                            (787..821)
DetBegin(p) ==
  /\ CanStart(p)
  /\ \E caller \in Callers \cup {Null}, h \in Houses :
       LET me == [Start("house_details", caller, 0, "view") EXCEPT
                    !.updateFields = [houseId |-> h]]
           open == caller # Null /\ caller.role \in {"owner", "admin"}
       IN
       /\ houses' = [houses EXCEPT ![h].views = @ + 1]
       /\ IF ~open /\ houses[h].status # "approved"
            THEN Return(p, me, Response(404, "PropertyNotAvailable"))
            ELSE Goto(p, [me EXCEPT !.pc = "h_booked"])
  /\ Mark(p)
  /\ UNCHANGED <<payments, authVars>>
  /\ UNCHANGED <<bookings, notifications>>

\* today = new Date(); ninetyDaysLater = new Date(), a little later;
\* ninetyDaysLater.setDate(today.getDate() + 90); the bookedDates query;
\* currentDate = new Date(today)                            (882..894, 1051)
DetBooked(p) ==
  /\ inv[p].pc = "h_booked"
  /\ \E today \in ClockReads, drift \in 0..MaxDrift :
       LET ninetyDaysLater == setDate(today + drift, getDate(today) + WindowDays) IN
       Goto(p, [inv[p] EXCEPT
                  !.pc = "h_calendar",
                  !.updateFields =
                     [houseId |-> inv[p].updateFields.houseId,
                      today |-> today,
                      currentDate |-> today,
                      ninetyDaysLater |-> ninetyDaysLater,
                      bookedDates |-> bookedDates(inv[p].updateFields.houseId,
                                                  today, ninetyDaysLater)]])
  /\ Mark(p)
  /\ UNCHANGED <<payments, authVars>>
  /\ UNCHANGED <<bookings, houses, notifications>>

\* one turn of the loop: while (currentDate <= ninetyDaysLater) { push;
\* currentDate.setDate(currentDate.getDate() + 1) }                (1049..1065)
DetLoop(p) ==
  /\ inv[p].pc = "h_calendar"
  /\ LET f == inv[p].updateFields IN
       /\ f.currentDate <= f.ninetyDaysLater
       /\ Goto(p, [inv[p] EXCEPT
                     !.availabilityCalendar =
                        Append(@, [date |-> day(f.currentDate),
                                   available |-> ~isBooked(f.bookedDates, f.currentDate)]),
                     !.updateFields.currentDate =
                        setDate(f.currentDate, getDate(f.currentDate) + 1)])
  /\ Mark(p)
  /\ UNCHANGED <<payments, authVars>>
  /\ UNCHANGED <<bookings, houses, notifications>>

\* the loop has ended: the response, with the first 30 entries     (1125..1160)
DetReturn(p) ==
  /\ inv[p].pc = "h_calendar"
  /\ inv[p].updateFields.currentDate > inv[p].updateFields.ninetyDaysLater
  /\ inv' = [inv EXCEPT ![p] =
               [inv[p] EXCEPT !.pc = "done",
                              !.resp = [Response(200, "none") EXCEPT
                                          !.calendar = slice(inv[p].availabilityCalendar,
                                                             SliceDays)]]]
  /\ Mark(p)
  /\ UNCHANGED <<payments, authVars>>
  /\ UNCHANGED <<bookings, houses, notifications>>

HouseDetails(p) == DetBegin(p) \/ DetBooked(p) \/ DetLoop(p) \/ DetReturn(p)

(***************************************************************************)
(* Payment POST                                                            *)
(***************************************************************************)
\* body.amount: absent or zero, a part, the whole, too much, negative
Amounts == {k * (PriceAmount \div 2) : k \in -1..3}

\* find({ bookingId, status: 'completed' }), then reduce to the sum of the
\* amounts                                                          (312..317)
paidAmount(bid) ==
  LET sum[k \in 0..Len(payments)] ==
        IF k = 0 THEN 0
        ELSE sum[k - 1] + (IF payments[k].bookingId = bid /\ payments[k].status = "completed"
                             THEN payments[k].amount ELSE 0)
  IN sum[Len(payments)]

\* parseFloat(amount) || dueAmount                                     (320)
paymentAmount(amount, dueAmount) == IF amount # 0 THEN amount ELSE dueAmount

\* if (paymentAmount > dueAmount)                                      (330)
exceedsDue(amount, dueAmount) == amount > dueAmount

\* Math.abs(newPaidAmount - booking.totalAmount) < 0.01                (378)
isFullyPaid(newPaidAmount, totalAmount) == newPaidAmount = totalAmount

paymentRecord(bid, amount, status) == [bookingId |-> bid, amount |-> amount, status |-> status]

\* the notifications of a successful payment, in the order of the try block
payNotifications(i) ==
  <<Notification(i.booking.renterId, "payment_successful", i.bookingId),
    Notification(i.booking.ownerId, "payment_received", i.bookingId)>>
  \o (IF isFullyPaid(i.updateFields.paidAmount + i.updateFields.paymentAmount,
                     i.booking.totalAmount)
        THEN <<Notification(i.booking.ownerId, "payment_completed", i.bookingId),
               Notification(i.booking.renterId, "booking_fully_paid", i.bookingId)>>
        ELSE <<>>)

\* token, findOne({ _id, renterId }), the booking must be confirmed (185..295)
PayBegin(p) ==
  /\ CanStart(p)
  /\ \E caller \in Callers, bid \in BookingIds, amount \in Amounts :
       LET booking == renterFindOne(bid, caller.userId)
           me == Start("payment", caller, bid, "pay")
       IN
       IF caller.role # "renter"
         THEN Return(p, Start(me.op, Null, 0, "none"), Response(403, "Forbidden"))
       ELSE IF booking = Null
         THEN Return(p, me, Response(404, "NotFound"))
       ELSE IF booking.status # "confirmed"
         THEN Return(p, [me EXCEPT !.booking = booking],
                     [Response(400, "NotConfirmed") EXCEPT !.currentStatus = booking.status])
       ELSE Goto(p, [me EXCEPT !.pc = "p_read", !.booking = booking,
                               !.updateFields = [amount |-> amount]])
  /\ Mark(p)
  /\ UNCHANGED <<bookings, houses, notifications, payments, authVars>>

\* the completed payments of the booking, the due amount, the two amount
\* checks                                                           (312..340)
PayRead(p) ==
  /\ inv[p].pc = "p_read"
  /\ LET paid == paidAmount(inv[p].bookingId)
         dueAmount == inv[p].booking.totalAmount - paid
         amount == paymentAmount(inv[p].updateFields.amount, dueAmount)
     IN
     IF amount <= 0
       THEN Return(p, inv[p], Response(400, "InvalidAmount"))
     ELSE IF exceedsDue(amount, dueAmount)
       THEN Return(p, inv[p], Response(400, "ExceedsDue"))
     ELSE Goto(p, [inv[p] EXCEPT !.pc = "p_charge",
                                 !.updateFields = [paymentAmount |-> amount,
                                                   paidAmount |-> paid]])
  /\ Mark(p)
  /\ UNCHANGED <<bookings, houses, notifications, payments, authVars>>

\* DummyPaymentGateway.processPayment: it throws one time in ten    (342..353)
PayCharge(p) ==
  /\ inv[p].pc = "p_charge"
  /\ \E ok \in BOOLEAN :
       Goto(p, [inv[p] EXCEPT !.pc = IF ok THEN "p_insert" ELSE "p_failed"])
  /\ Mark(p)
  /\ UNCHANGED <<bookings, houses, notifications, payments, authVars>>

\* paymentsCollection.insertOne(paymentRecord), status 'completed'  (355..375)
PayInsert(p) ==
  /\ inv[p].pc = "p_insert"
  /\ payments' = Append(payments, paymentRecord(inv[p].bookingId,
                                                inv[p].updateFields.paymentAmount,
                                                "completed"))
  /\ Goto(p, [inv[p] EXCEPT !.pc = "p_update"])
  /\ Mark(p)
  /\ UNCHANGED <<bookings, houses, notifications, authVars>>

\* updateOne({ _id }, { $set: { paymentStatus, ... } }), then the
\* notifications of the try block, n of them before it throws       (377..623)
PayUpdate(p) ==
  /\ inv[p].pc = "p_update"
  /\ LET f == inv[p].updateFields
         ns == payNotifications(inv[p])
     IN
     /\ bookings' = [bookings EXCEPT ![inv[p].bookingId].paymentStatus =
                       IF isFullyPaid(f.paidAmount + f.paymentAmount,
                                      inv[p].booking.totalAmount)
                         THEN "paid" ELSE "partial"]
     /\ \E n \in 0..Len(ns) : notifications' = notifications \cup {ns[k] : k \in 1..n}
  /\ Return(p, inv[p], Response(200, "none"))
  /\ Mark(p)
  /\ UNCHANGED <<houses, payments, authVars>>

\* catch (paymentError): insertOne(failedPayment), the payment_failed
\* notification if its insert does not throw, 400                   (627..698)
PayFailed(p) ==
  /\ inv[p].pc = "p_failed"
  /\ payments' = Append(payments, paymentRecord(inv[p].bookingId,
                                                inv[p].updateFields.paymentAmount,
                                                "failed"))
  /\ \E ok \in BOOLEAN :
       notifications' = IF ok
                          THEN notifications \cup
                                 {Notification(inv[p].booking.renterId, "payment_failed",
                                               inv[p].bookingId)}
                          ELSE notifications
  /\ Return(p, inv[p], Response(400, "PaymentFailed"))
  /\ Mark(p)
  /\ UNCHANGED <<bookings, houses, authVars>>

Payment(p) ==
  \/ PayBegin(p)
  \/ PayRead(p)
  \/ PayCharge(p)
  \/ PayInsert(p)
  \/ PayUpdate(p)
  \/ PayFailed(p)

(***************************************************************************)
(* Admin login: the account's lockout fields                               *)
(***************************************************************************)
\* One admin account, active and not suspended.  A Lambda instance serves
\* one login request after the other, so a process that has answered takes
\* the next request.
MAX_LOGIN_ATTEMPTS == 5
LOCKOUT_DURATION_MINUTES == 30

TickMinutes == 15
MaxClock == 45
MaxTokens == 2

\* the admin account before any failed login
NoAttempts == [loginAttempts |-> 0, lastFailedLogin |-> 0]

\* what the request carries: no password, a wrong one, the right one
Passwords == {"missing", "wrong", "right"}

\* new Date() < lockoutTime, lockoutTime = lastFailedLogin + 30 min (802..805)
stillLocked(admin, now) == now < admin.lastFailedLogin + LOCKOUT_DURATION_MINUTES

\* the request arrives: 400 without credentials; findOne({ email, role:
\* 'admin' }); the lock check on the document read                  (748..838)
LoginBegin(p) ==
  /\ CanStart(p) \/ inv[p].pc = "done"
  /\ \E password \in Passwords :
       LET me == Start("login", Null, 0, password)
           admin == users
       IN
       IF password = "missing"
         THEN Return(p, me, Response(400, "MissingCredentials"))
       ELSE IF admin.loginAttempts >= MAX_LOGIN_ATTEMPTS
         THEN IF stillLocked(admin, clock)
                THEN Return(p, me, Response(423, "AccountLocked"))
                ELSE Goto(p, [me EXCEPT !.pc = "l_reset",
                                        !.updateFields = [admin |-> admin]])
       ELSE Goto(p, [me EXCEPT !.pc = "l_compare",
                               !.updateFields = [admin |-> admin]])
  /\ Mark(p)
  /\ UNCHANGED <<bookings, houses, notifications, payments, authVars>>

\* updateOne({ _id }, { $set: { loginAttempts: 0 } }) after the lockout
\* period                                                           (831..837)
LoginReset(p) ==
  /\ inv[p].pc = "l_reset"
  /\ users' = [users EXCEPT !.loginAttempts = 0]
  /\ Goto(p, [inv[p] EXCEPT !.pc = "l_compare"])
  /\ Mark(p)
  /\ UNCHANGED <<bookings, houses, notifications, payments, refreshTokens, clock,
                 lockedAt>>

\* bcrypt.compare fails: updateOne({ _id }, { $inc: { loginAttempts: 1 },
\* $set: { lastFailedLogin: new Date() } }), 401                    (886..920)
LoginWrong(p) ==
  /\ inv[p].pc = "l_compare"
  /\ inv[p].action = "wrong"
  /\ users' = [loginAttempts |-> users.loginAttempts + 1, lastFailedLogin |-> clock]
  /\ lockedAt' = IF users.loginAttempts < MAX_LOGIN_ATTEMPTS
                    /\ users.loginAttempts + 1 >= MAX_LOGIN_ATTEMPTS
                   THEN {clock} ELSE lockedAt
  /\ Return(p, inv[p], Response(401, "InvalidCredentials"))
  /\ Mark(p)
  /\ UNCHANGED <<bookings, houses, notifications, payments, refreshTokens, clock>>

\* bcrypt.compare succeeds: updateOne({ _id }, { $set: { loginAttempts: 0,
\* lastLogin, lastLoginIP } })                                      (886..937)
LoginSuccess(p) ==
  /\ inv[p].pc = "l_compare"
  /\ inv[p].action = "right"
  /\ refreshTokens < MaxTokens
  /\ users' = [users EXCEPT !.loginAttempts = 0]
  /\ Goto(p, [inv[p] EXCEPT !.pc = "l_tokens"])
  /\ Mark(p)
  /\ UNCHANGED <<bookings, houses, notifications, payments, refreshTokens, clock,
                 lockedAt>>

\* jwt.sign twice, refreshTokensCollection.insertOne, 200           (955..1021)
LoginTokens(p) ==
  /\ inv[p].pc = "l_tokens"
  /\ refreshTokens' = refreshTokens + 1
  /\ Return(p, inv[p], Response(200, "none"))
  /\ Mark(p)
  /\ UNCHANGED <<bookings, houses, notifications, payments, users, clock, lockedAt>>

\* time passes
Tick ==
  /\ clock < MaxClock
  /\ clock' = clock + TickMinutes
  /\ UNCHANGED <<bookings, houses, notifications, payments, users, refreshTokens,
                 lockedAt, inv, interleaved>>

AdminLogin(p) ==
  \/ LoginBegin(p)
  \/ LoginReset(p)
  \/ LoginWrong(p)
  \/ LoginSuccess(p)
  \/ LoginTokens(p)

(***************************************************************************)
(* The system                                                              *)
(***************************************************************************)
\* The collections the model starts from are those that invocations run one
\* after the other produce.  A pending booking at any dates: the renter POST
\* inserts it at free dates and writes no notification, update_dates then
\* moves it without a check.  A confirmed booking: a pending one accepted
\* when no confirmed booking of the house matched the date clause, which
\* pushed one statusHistory entry (and the notification inserts threw).
confirmedBooking(h, renterId, checkIn, checkOut) ==
  ownerSet(newBooking(h, renterId, checkIn, checkOut),
           ownerUpdateFields(newBooking(h, renterId, checkIn, checkOut), "accept"))

\* the k-th seeded booking belongs to renter (k mod NumRenters) + 1, so
\* that neighbouring bookings have different renters
SeedRenter(k) == <<"renter", (k % NumRenters) + 1>>

SeedBookings(k, ranges) ==
  {newBooking(h, SeedRenter(k), d[1], d[2]) : h \in Houses, d \in ranges}
  \cup {confirmedBooking(h, SeedRenter(k), d[1], d[2]) : h \in Houses, d \in ranges}

SeedOK(bs) ==
  \A i, j \in DOMAIN bs :
    (i # j /\ bs[i].status = "confirmed" /\ bs[j].status = "confirmed"
           /\ bs[i].houseId = bs[j].houseId)
      => ~DateClause(bs[i], bs[j].checkInDate, bs[j].checkOutDate)

Seeds(n, ranges) ==
  {bs \in UNION {[1..k -> UNION {SeedBookings(i, ranges) : i \in 1..k}] : k \in 0..n} :
     /\ \A i \in DOMAIN bs : bs[i].renterId = SeedRenter(i)
     /\ SeedOK(bs)}

InitWith(seeds) ==
  /\ bookings \in seeds
  /\ houses = [h \in Houses |-> [status |-> "approved", views |-> 0]]
  /\ notifications = {}
  /\ payments = <<>>
  /\ users = NoAttempts
  /\ refreshTokens = 0
  /\ clock = 0
  /\ lockedAt = {}
  /\ inv = [p \in Procs |-> Idle]
  /\ interleaved = FALSE

Init == InitWith(Seeds(MaxSeed, Ranges))

Next ==
  \E p \in Procs :
    \/ OwnerPut(p)
    \/ RenterPut(p)
    \/ BookingRequest(p)
    \/ RenterPost(p)
    \/ HouseDelete(p)

Spec == Init /\ [][Next]_vars

\* One owner PUT against a collection of up to MaxBookings bookings whose
\* dates reach one day further.
WideRanges == {r \in (1..MaxDate + 1) \X (1..MaxDate + 1) : r[1] < r[2]}

OwnerInit == InitWith(Seeds(MaxBookings, WideRanges))

OwnerNext == \E p \in {1} : OwnerPut(p)

OwnerSpec == OwnerInit /\ [][OwnerNext]_vars

\* Owner PUT invocations only, running concurrently.
RaceNext == \E p \in Procs : OwnerPut(p)

RaceSpec == Init /\ [][RaceNext]_vars

\* The two creating handlers only, running concurrently.
CreateNext == \E p \in Procs : BookingRequest(p) \/ RenterPost(p)

CreateSpec == Init /\ [][CreateNext]_vars

\* The two handlers that change the status or the dates of a booking:
\* owner PUT and renter PUT.
EditNext == \E p \in Procs : OwnerPut(p) \/ RenterPut(p)

EditSpec == Init /\ [][EditNext]_vars

\* House DELETE and booking request POST, running concurrently.
DeleteNext == \E p \in Procs : HouseDelete(p) \/ BookingRequest(p)

DeleteSpec == Init /\ [][DeleteNext]_vars

\* Login requests against the one admin account while time passes.
LoginInit == InitWith({<<>>})

LoginNext ==
  \/ \E p \in Procs : AdminLogin(p)
  \/ Tick

LoginSpec == LoginInit /\ [][LoginNext]_vars

\* One invocation of any handler that writes an existing booking: owner
\* PUT, renter PUT, house DELETE, payment POST.
AmountNext ==
  \E p \in {1} :
    \/ OwnerPut(p)
    \/ RenterPut(p)
    \/ HouseDelete(p)
    \/ Payment(p)

AmountSpec == Init /\ [][AmountNext]_vars

\* Payment invocations only, running concurrently, on confirmed bookings.
PaySeeds ==
  {bs \in Seeds(MaxSeed, Ranges) : \A i \in DOMAIN bs : bs[i].status = "confirmed"}

PayInit == InitWith(PaySeeds)

PayNext == \E p \in Procs : Payment(p)

PaySpec == PayInit /\ [][PayNext]_vars

\* One house details GET against a collection of bookings around the end
\* of the month, their dates instants in ticks.
CalInstants == {t \in 0..((MonthDays + 3) * TicksPerDay - 1) : day(t) >= MonthDays - 1}

CalRanges == {r \in CalInstants \X CalInstants : r[1] < r[2]}

\* a booking as creation, an accept, a renter cancel or a cascade leave it
CalBookings(k) ==
  UNION {{newBooking(h, SeedRenter(k), r[1], r[2]),
          confirmedBooking(h, SeedRenter(k), r[1], r[2]),
          renterSet(newBooking(h, SeedRenter(k), r[1], r[2]), [action |-> "cancel"]),
          cascadeSet(newBooking(h, SeedRenter(k), r[1], r[2]))} :
           h \in Houses, r \in CalRanges}

CalSeeds ==
  {bs \in UNION {[1..k -> UNION {CalBookings(i) : i \in 1..k}] : k \in 0..MaxCalSeed} :
     /\ \A i \in DOMAIN bs : bs[i].renterId = SeedRenter(i)
     /\ SeedOK(bs)}

CalInit == InitWith(CalSeeds)

CalNext == \E p \in {1} : HouseDetails(p)

CalendarSpec == CalInit /\ [][CalNext]_vars

(***************************************************************************)
(* Properties                                                              *)
(***************************************************************************)
\* the half-open overlap of two bookings' ranges
Overlap(a, b) ==
  /\ a.checkInDate < b.checkOutDate
  /\ b.checkInDate < a.checkOutDate

Held(b) == b.status \in {"confirmed", "active"}

Done(p) == inv[p].pc = "done"

\* C1 (as claimed): in every reachable state, whatever the interleaving, no
\* two confirmed or active bookings of the same property overlap.
NoOverlappingHeldBookings ==
  \A i, j \in Ids :
    (i # j /\ bookings[i].houseId = bookings[j].houseId
           /\ Held(bookings[i]) /\ Held(bookings[j]))
      => ~Overlap(bookings[i], bookings[j])

\* C1 (amended): as long as the invocations have run one at a time (no step
\* was taken while another invocation was in flight), no two confirmed or
\* active bookings of the same property overlap.
SequentialNoOverlap == ~interleaved => NoOverlappingHeldBookings

\* C1 witness: two invocations ran one after the other, the later one an
\* accept that confirmed its target while the house has another confirmed
\* booking.
SequentialSecondConfirm ==
  /\ ~interleaved
  /\ \A p \in Procs : Done(p)
  /\ \E p \in Procs, j \in Ids :
       /\ inv[p].op = "owner_put" /\ inv[p].action = "accept"
       /\ inv[p].resp.statusCode = 200
       /\ j # inv[p].bookingId
       /\ bookings[inv[p].bookingId].status = "confirmed"
       /\ bookings[j].status = "confirmed"
       /\ bookings[j].houseId = bookings[inv[p].bookingId].houseId

\* the status write of an accept: the step of p from o_write
AcceptWrites(p) ==
  /\ inv[p].pc = "o_write" /\ inv[p].action = "accept"
  /\ inv'[p].pc = "o_notify"

\* C2 (as claimed): the status write of an accept is conditional on the
\* booking still being pending: when the booking has left pending since the
\* handler read it, the write changes nothing.
AcceptWriteIsConditional ==
  [][\A p \in Procs :
       (AcceptWrites(p) /\ bookings[inv[p].bookingId].status # "pending")
         => bookings'[inv[p].bookingId] = bookings[inv[p].bookingId]]_vars

\* p is an accept that has passed its overlap check
PassedCheck(p) ==
  /\ inv[p].op = "owner_put" /\ inv[p].action = "accept"
  /\ \/ inv[p].pc \in {"o_write", "o_notify", "o_cfind", "o_cupdate", "o_cnotify",
                       "o_cascade2"}
     \/ Done(p) /\ inv[p].resp.statusCode \in {200, 500}

\* two accepts for different bookings of one property, their ranges
\* overlapping, have both passed the check
Racing(p, q) ==
  /\ p # q /\ PassedCheck(p) /\ PassedCheck(q)
  /\ inv[p].bookingId # inv[q].bookingId
  /\ inv[p].booking.houseId = inv[q].booking.houseId
  /\ Overlap(inv[p].booking, inv[q].booking)

\* C3: the race of two accepts is not mitigated: when two accepts for
\* different bookings of one property with overlapping ranges have both
\* passed the overlap check, the status write of each still sets its
\* target to confirmed.
RacingAcceptsBothWrite ==
  [][\A p, q \in Procs :
       (Racing(p, q) /\ AcceptWrites(p))
         => bookings'[inv[p].bookingId].status = "confirmed"]_vars

\* C3 witness: both racing accepts have returned 200 and both bookings are
\* confirmed, overlapping, on one property.
RaceBothConfirmed ==
  \E p, q \in Procs :
    /\ Racing(p, q) /\ interleaved
    /\ Done(p) /\ inv[p].resp.statusCode = 200
    /\ Done(q) /\ inv[q].resp.statusCode = 200
    /\ bookings[inv[p].bookingId].status = "confirmed"
    /\ bookings[inv[q].bookingId].status = "confirmed"
    /\ bookings[inv[p].bookingId].houseId = bookings[inv[q].bookingId].houseId
    /\ Overlap(bookings[inv[p].bookingId], bookings[inv[q].bookingId])

\* the step of p that runs the overlap check of an accept
AcceptChecks(p) == inv[p].pc = "o_check" /\ inv'[p].pc # "o_check"

\* the confirmed or active bookings of the target's property, other than
\* the target, whose range overlaps the range the handler read
TrueConflicts(p) ==
  {i \in Ids : /\ i # inv[p].bookingId
               /\ bookings[i].houseId = inv[p].booking.houseId
               /\ Held(bookings[i])
               /\ Overlap(bookings[i], inv[p].booking)}

\* ... and those whose range touches it at a boundary
Abutting(p) ==
  {i \in Ids : /\ i # inv[p].bookingId
               /\ bookings[i].houseId = inv[p].booking.houseId
               /\ Held(bookings[i])
               /\ \/ bookings[i].checkOutDate = inv[p].booking.checkInDate
                  \/ bookings[i].checkInDate = inv[p].booking.checkOutDate}

\* C4 (as claimed): the overlap check of an accept passes when the target's
\* range abuts a confirmed or active booking of the property and overlaps
\* none: a touching boundary is not a conflict.
AbuttingAcceptPasses ==
  [][\A p \in Procs :
       (AcceptChecks(p) /\ Abutting(p) # {} /\ TrueConflicts(p) = {})
         => inv'[p].pc = "o_write"]_vars

\* the step of p that runs the existingBooking check of a creation
CreateChecks(p) == inv[p].pc \in {"q_check", "n_check"} /\ inv'[p].pc # inv[p].pc

\* C5 (as claimed): a booking request is answered 409 if and only if some
\* pending, confirmed or active booking of the property overlaps the
\* requested range, half-open: existing.checkIn < out and in < existing.checkOut.
UnavailableIffOverlap ==
  [][\A p \in Procs :
       CreateChecks(p) =>
         ((inv'[p].resp.statusCode = 409)
            <=> \E i \in Ids :
                  /\ bookings[i].houseId = inv[p].booking.houseId
                  /\ bookings[i].status \in {"pending", "confirmed", "active"}
                  /\ Overlap(bookings[i], inv[p].booking))]_vars

\* C6 (as claimed): a booking rejected by the cascade of an accept has gained
\* a statusHistory entry for its transition to rejected.
CascadeRecordsHistory ==
  \A i \in Ids :
    (bookings[i].status = "rejected" /\ bookings[i].rejectionReason = "cascade")
      => /\ Len(bookings[i].statusHistory) > 0
         /\ bookings[i].statusHistory[Len(bookings[i].statusHistory)].to = "rejected"

\* C7: an accept of a booking of the caller that is not pending when the
\* handler reads it ends at once with the invalid-transition error naming
\* the current status; no booking changes, no notification is created.
AcceptNonPendingRefused ==
  [][\A p \in Procs :
       (/\ inv[p].pc = "idle" /\ inv'[p].op = "owner_put" /\ inv'[p].action = "accept"
        /\ inv'[p].bookingId \in Ids
        /\ inv'[p].caller # Null
        /\ bookings[inv'[p].bookingId].ownerId = inv'[p].caller.userId
        /\ bookings[inv'[p].bookingId].status # "pending")
         => /\ inv'[p].pc = "done"
            /\ inv'[p].resp.statusCode = 400
            /\ inv'[p].resp.error = "InvalidTransition"
            /\ inv'[p].resp.currentStatus = bookings[inv'[p].bookingId].status
            /\ bookings' = bookings
            /\ notifications' = notifications]_vars

\* C7 witness: an accept has been refused for a booking that was rejected
\* before.
AcceptRefusedSeen ==
  \E p \in Procs :
    /\ Done(p) /\ inv[p].op = "owner_put" /\ inv[p].action = "accept"
    /\ inv[p].resp.error = "InvalidTransition"
    /\ inv[p].resp.currentStatus = "rejected"
    /\ bookings[inv[p].bookingId].status = inv[p].resp.currentStatus

\* C8 (as claimed): an accept whose target overlaps a confirmed or active
\* booking of the property ends with the date-conflict error that lists
\* exactly those overlapping bookings, and changes nothing.
ConflictListsExactlyOverlapping ==
  [][\A p \in Procs :
       (AcceptChecks(p) /\ TrueConflicts(p) # {})
         => /\ inv'[p].pc = "done"
            /\ inv'[p].resp.statusCode = 409
            /\ inv'[p].resp.conflictingBookings = conflictingBookings(TrueConflicts(p))
            /\ bookings' = bookings
            /\ notifications' = notifications]_vars

\* C9 (as claimed): an accept that has written its target as confirmed
\* returns success whatever happens to the cascade afterwards, and the
\* target stays confirmed.
CascadeFailureNotSurfaced ==
  \A p \in Procs :
    (Done(p) /\ inv[p].op = "owner_put" /\ inv[p].action = "accept"
             /\ inv[p].resp.statusCode \notin {400, 403, 404, 409})
      => /\ inv[p].resp.statusCode = 200
         /\ bookings[inv[p].bookingId].status = "confirmed"

Terminal == {"completed", "cancelled", "rejected"}

\* C10 (as claimed): a booking that is completed, cancelled or rejected
\* never changes its status again.
TerminalStatusesStay ==
  [][\A i \in Ids :
       bookings[i].status \in Terminal => bookings'[i].status = bookings[i].status]_vars

\* C11 (as claimed): every change of a booking's status appends exactly
\* one statusHistory entry, from the status before the change to the new
\* status.
StatusChangeAppendsHistory ==
  [][\A i \in Ids :
       bookings'[i].status # bookings[i].status
         => LET old == bookings[i].statusHistory
                new == bookings'[i].statusHistory
            IN /\ Len(new) = Len(old) + 1
               /\ SubSeq(new, 1, Len(old)) = old
               /\ new[Len(new)].from = bookings[i].status
               /\ new[Len(new)].to = bookings'[i].status]_vars

IsPrefix(s, t) == Len(s) <= Len(t) /\ SubSeq(t, 1, Len(s)) = s

\* C12 (as claimed): statusHistory is append-only under any interleaving:
\* the statusHistory of every booking before a step is a prefix of its
\* statusHistory after the step.
HistoryAppendOnly ==
  [][\A i \in Ids :
       IsPrefix(bookings[i].statusHistory, bookings'[i].statusHistory)]_vars

\* the final bulk update of an accept whose two notification inserts
\* succeeded
FinalCascade(p) ==
  /\ inv[p].pc = "o_cascade2" /\ inv'[p].pc = "done"
  /\ \A k \in 1..2 : ownerPutNotifications(inv[p])[k] \in notifications

\* C13 (as claimed): no booking is auto-rejected silently: when the final
\* bulk update of an accept rejects a pending booking, and no notification
\* write failed, a booking_auto_rejected notification addressed to that
\* booking's renter exists.
CascadeNotifiesEveryRenter ==
  [][\A p \in Procs :
       FinalCascade(p) =>
         \A i \in Ids :
           (bookings[i].status = "pending" /\ bookings'[i].status = "rejected")
             => Notification(bookings[i].renterId, "booking_auto_rejected", i)
                  \in notifications']_vars

\* C14 (as claimed): an accept changes the status of the target and of the
\* pending bookings of the same property whose range overlaps the target's,
\* half-open, and of no other booking.
AcceptChangesOnlyOverlapping ==
  [][\A p \in Procs :
       (InFlight(p) /\ inv[p].op = "owner_put" /\ inv[p].action = "accept"
          /\ inv'[p] # inv[p])
         => \A i \in Ids :
              bookings'[i].status # bookings[i].status
                => \/ i = inv[p].bookingId
                   \/ /\ bookings[i].status = "pending"
                      /\ bookings[i].houseId = inv[p].booking.houseId
                      /\ Overlap(bookings[i], inv[p].booking)]_vars

\* C15 (as claimed): every stored booking has checkIn < checkOut: a creation
\* with an empty or reversed range inserts nothing, and update_dates keeps
\* the order.
StoredRangesValid ==
  \A i \in Ids : bookings[i].checkInDate < bookings[i].checkOutDate

\* a step that inserts a booking: insertOne of either creating handler
Inserts(p) ==
  /\ inv[p].pc \in {"q_insert", "n_insert"}
  /\ Len(bookings') = Len(bookings) + 1

\* C16 (as claimed): no creating handler inserts a booking whose check-in
\* date is before the start of today.
NoPastDateInsert ==
  [][\A p \in Procs :
       Inserts(p) => bookings'[Len(bookings')].checkInDate >= Today]_vars

\* a house details invocation that has answered 200 with its calendar
Rendered(p) ==
  /\ inv[p].op = "house_details"
  /\ inv[p].pc = "done"
  /\ inv[p].resp.statusCode = 200

\* some confirmed or active booking of house h contains day d, half-open
BlockedDay(h, d) ==
  \E i \in Ids : /\ bookings[i].houseId = h
                 /\ bookings[i].status \in {"confirmed", "active"}
                 /\ day(bookings[i].checkInDate) <= d
                 /\ d < day(bookings[i].checkOutDate)

\* C17 (as claimed): in the calendar of the response a day is unavailable
\* if and only if a confirmed or active booking of the property has
\* checkIn <= day < checkOut; the check-out day itself is available.
CalendarMarksHalfOpen ==
  \A p \in Procs :
    Rendered(p) =>
      \A k \in DOMAIN inv[p].resp.calendar :
        LET e == inv[p].resp.calendar[k] IN
        e.available <=> ~BlockedDay(inv[p].updateFields.houseId, e.date)

\* C18 (as claimed): no step of the invocation that renders the calendar
\* changes the bookings collection or the property record.
CalendarRenderingWritesNothing ==
  [][\A p \in Procs :
       (inv'[p].op = "house_details" /\ inv'[p] # inv[p])
         => (bookings' = bookings /\ houses' = houses)]_vars

\* C19 (as claimed): the loop ends with one entry per day, in ascending
\* order, from today to today + 90 days, both included.
CalendarCoversWindow ==
  \A p \in Procs :
    Rendered(p) =>
      LET c == inv[p].availabilityCalendar
          first == day(inv[p].updateFields.today)
      IN /\ Len(c) = WindowDays + 1
         /\ \A k \in 1..Len(c) : c[k].date = first + k - 1

\* C20: the availability check is read-only and idempotent: the step that
\* runs it (existingBooking of a creation, overlappingBookings of an accept)
\* leaves every booking as it was, and the check evaluated again right
\* after it, for the same property and range, gives the answer the step gave.
AvailabilityCheckReadOnly ==
  [][\A p \in Procs :
       /\ CreateChecks(p) =>
            /\ bookings' = bookings
            /\ (inv'[p].resp.statusCode = 409)
                 <=> (existingBooking(inv[p].booking.houseId, inv[p].booking.checkInDate,
                                      inv[p].booking.checkOutDate) # {})'
       /\ AcceptChecks(p) =>
            /\ bookings' = bookings
            /\ (inv'[p].resp.statusCode = 409)
                 <=> (overlappingBookings(inv[p].bookingId, inv[p].booking) # {})']_vars

\* two creations asked for the same property and range, nothing was written
\* between their checks, and both were answered 409
SameCheckTwice ==
  \E p, q \in Procs :
    /\ p # q
    /\ Done(p) /\ Done(q)
    /\ inv[p].op \in {"booking_request", "renter_post"}
    /\ inv[q].op \in {"booking_request", "renter_post"}
    /\ inv[p].resp.statusCode = 409 /\ inv[q].resp.statusCode = 409
    /\ inv[p].booking.houseId = inv[q].booking.houseId
    /\ inv[p].booking.checkInDate = inv[q].booking.checkInDate
    /\ inv[p].booking.checkOutDate = inv[q].booking.checkOutDate

\* C21: no step of any handler changes the totalAmount of a booking that
\* exists: owner accept, reject, cancel and complete, the cascade, renter
\* cancel and update_dates, payment, and the cancellation of a forced delete.
TotalAmountFixed ==
  [][\A i \in Ids : bookings'[i].totalAmount = bookings[i].totalAmount]_vars

\* update_dates has moved a booking to dates that would be priced otherwise
DatesMovedAmountKept ==
  \E p \in Procs :
    /\ Done(p)
    /\ inv[p].op = "renter_put" /\ inv[p].action = "update_dates"
    /\ inv[p].resp.statusCode = 200
    /\ LET b == bookings[inv[p].bookingId] IN
         b.totalAmount # postTotal(b.checkInDate, b.checkOutDate)

PendingRivals(p) ==
  {i \in Ids : /\ bookings[i].houseId = inv[p].booking.houseId
               /\ bookings[i].status = "pending"
               /\ bookings[i].renterId # inv[p].booking.renterId
               /\ Overlap(bookings[i], inv[p].booking)}

\* no confirmed or active booking of the property comes near the range
NoHeldNear(p) ==
  \A i \in Ids :
    (bookings[i].houseId = inv[p].booking.houseId /\ Held(bookings[i]))
      => ~DateClause(bookings[i], inv[p].booking.checkInDate, inv[p].booking.checkOutDate)

\* C23 (as claimed): a creation whose range overlaps only pending bookings
\* of other renters passes the availability check and goes on to be stored
\* as one more pending booking.
PendingOverlapAccepted ==
  [][\A p \in Procs :
       (CreateChecks(p) /\ PendingRivals(p) # {} /\ NoHeldNear(p))
         => inv'[p].pc \in {"q_insert", "n_insert"}]_vars

\* C24: when the invocations run one at a time, a booking becomes confirmed
\* only from pending and only when no other confirmed or active booking of
\* its property has checkIn <= its checkOut and checkOut >= its checkIn; the
\* dates of a booking change only while it is pending; and after every step
\* no two confirmed or active bookings of a property overlap.
SequentialAcceptKeepsDisjoint ==
  [][~interleaved' =>
     /\ \A i \in Ids :
          (bookings[i].status # "confirmed" /\ bookings'[i].status = "confirmed") =>
             /\ bookings[i].status = "pending"
             /\ \A j \in Ids :
                  (j # i /\ bookings[j].houseId = bookings[i].houseId /\ Held(bookings[j]))
                    => ~DateClause(bookings[j], bookings[i].checkInDate,
                                   bookings[i].checkOutDate)
     /\ \A i \in Ids :
          (bookings'[i].checkInDate # bookings[i].checkInDate
             \/ bookings'[i].checkOutDate # bookings[i].checkOutDate)
            => bookings[i].status = "pending"
     /\ NoOverlappingHeldBookings']_vars

\* a renter moved a pending booking onto the dates of a confirmed one, and
\* the owner's accept of it was then refused
MovedThenAcceptRefused ==
  \E p, q \in Procs :
    /\ ~interleaved
    /\ Done(p) /\ Done(q)
    /\ inv[q].op = "renter_put" /\ inv[q].action = "update_dates"
    /\ inv[q].resp.statusCode = 200
    /\ inv[p].op = "owner_put" /\ inv[p].action = "accept"
    /\ inv[p].resp.statusCode = 409
    /\ inv[p].bookingId = inv[q].bookingId
    /\ \/ inv[p].booking.checkInDate # inv[q].booking.checkInDate
       \/ inv[p].booking.checkOutDate # inv[q].booking.checkOutDate

\* the status changes of the claimed table
TableChanges ==
  {<<"pending", "confirmed">>, <<"pending", "rejected">>, <<"pending", "cancelled">>,
   <<"confirmed", "cancelled">>, <<"confirmed", "completed">>, <<"active", "completed">>}

\* C25 (as claimed): whenever the owner handler changes the status of its
\* target, the change is one of pending->confirmed, pending->rejected,
\* pending->cancelled, confirmed->cancelled, confirmed->completed,
\* active->completed.
OwnerChangesInTable ==
  [][\A p \in Procs :
       (inv[p].pc = "o_write" /\ inv'[p] # inv[p]
          /\ bookings'[inv[p].bookingId].status # bookings[inv[p].bookingId].status)
         => <<bookings[inv[p].bookingId].status, bookings'[inv[p].bookingId].status>>
              \in TableChanges]_vars

\* C26: no booking ever has status active: from bookings created pending,
\* whatever the handlers invoked, a status is one of pending, confirmed,
\* completed, cancelled, rejected.
NeverActive ==
  \A i \in Ids :
    bookings[i].status \in {"pending", "confirmed", "completed", "cancelled", "rejected"}

\* the owner asked for 'active', the action the table lists for a confirmed
\* booking, on a confirmed booking of theirs, and was refused
ActiveActionRefused ==
  \E p \in Procs :
    /\ Done(p)
    /\ inv[p].op = "owner_put" /\ inv[p].action = "active"
    /\ inv[p].resp.statusCode = 400
    /\ inv[p].bookingId \in Ids
    /\ bookings[inv[p].bookingId].ownerId = inv[p].caller.userId
    /\ bookings[inv[p].bookingId].status = "confirmed"

\* the step of p that starts an invocation of operation op
Begins(p, op) == inv[p].pc = "idle" /\ inv'[p].op = op

\* C27: an owner PUT gets past its role check only for role owner or admin,
\* answers 404 unless the target's ownerId is the caller's userId, and
\* changes only bookings whose ownerId is the caller's userId; a renter PUT
\* gets past its role check only for role renter, answers 404 unless the
\* target's renterId is the caller's userId, and changes only its target,
\* whose renterId is the caller's userId; a 403 or 404 is the first step of
\* the invocation and writes nothing.
MutationsConfinedToParties ==
  [][\A p \in Procs :
       /\ Begins(p, "owner_put") =>
            /\ bookings' = bookings
            /\ inv'[p].caller # Null => inv'[p].caller.role \in {"owner", "admin"}
            /\ inv'[p].caller = Null => inv'[p].resp.statusCode = 403
            /\ (/\ inv'[p].caller # Null
                /\ inv'[p].action \in validActions
                /\ \/ inv'[p].bookingId \notin Ids
                   \/ bookings[inv'[p].bookingId].ownerId # inv'[p].caller.userId)
                 => inv'[p].resp.statusCode = 404
       /\ Begins(p, "renter_put") =>
            /\ bookings' = bookings
            /\ inv'[p].caller # Null => inv'[p].caller.role = "renter"
            /\ inv'[p].caller = Null => inv'[p].resp.statusCode = 403
            /\ (/\ inv'[p].caller # Null
                /\ \/ inv'[p].bookingId \notin Ids
                   \/ bookings[inv'[p].bookingId].renterId # inv'[p].caller.userId)
                 => inv'[p].resp.statusCode = 404
       /\ (inv[p].op = "owner_put" /\ inv'[p] # inv[p]) =>
            \A i \in Ids : bookings'[i] # bookings[i]
                             => bookings[i].ownerId = inv[p].caller.userId
       /\ (inv[p].op = "renter_put" /\ inv'[p] # inv[p]) =>
            \A i \in Ids : bookings'[i] # bookings[i]
                             => /\ i = inv[p].bookingId
                                /\ bookings[i].renterId = inv[p].caller.userId]_vars

\* the admin's owner PUT on an existing booking and a renter's PUT on
\* another renter's booking were both answered 404
StrangersNotFound ==
  \E p, q \in Procs :
    /\ Done(p) /\ Done(q)
    /\ inv[p].op = "owner_put" /\ inv[p].caller # Null /\ inv[p].caller.role = "admin"
    /\ inv[p].bookingId \in Ids
    /\ inv[p].resp.statusCode = 404
    /\ inv[q].op = "renter_put" /\ inv[q].caller # Null
    /\ inv[q].bookingId \in Ids
    /\ bookings[inv[q].bookingId].renterId # inv[q].caller.userId
    /\ inv[q].resp.statusCode = 404

\* C28 (as claimed): whatever the interleaving of payment invocations, the
\* completed payments of a booking never add up to more than its
\* totalAmount.
PaidWithinTotal ==
  \A i \in Ids : paidAmount(i) <= bookings[i].totalAmount

\* C29 (as claimed): once a property is deleted none of its bookings is
\* pending, confirmed or active, also when a booking request for the
\* property runs at the same time as the delete.
DeletedHasNoLiveBookings ==
  \A h \in Houses : houses[h].status = "deleted" => activeBookings(h) = {}

\* C30 (as claimed): once the account's loginAttempts has reached 5 through
\* consecutive wrong passwords, every login request carrying credentials
\* that arrives less than 30 minutes after the lastFailedLogin set by the
\* wrong password that reached 5 is answered 423, whatever its password,
\* and changes neither loginAttempts, lastFailedLogin nor the stored tokens.
LockedOutFor30Minutes ==
  [][\A p \in Procs :
       (/\ inv[p].pc \in {"idle", "done"}
        /\ inv'[p] # inv[p]
        /\ inv'[p].op = "login"
        /\ inv'[p].action # "missing"
        /\ \E t \in lockedAt : clock < t + LOCKOUT_DURATION_MINUTES)
         => /\ inv'[p].resp.statusCode = 423
            /\ users' = users
            /\ refreshTokens' = refreshTokens]_vars
====
